---- MODULE Spec2Model ----
(***************************************************************************)
(* Model of src/intervention_matcher.py (ToxEcology Intervention Matcher). *)
(*                                                                         *)
(* Python str values that the code transforms (lower, split, replace,      *)
(* title, the `in` substring test) are sequences of one-character strings, *)
(* so that each conversion is computed character by character.  Opaque     *)
(* identifiers (record ids, patient ids, report ids) are TLA+ strings.     *)
(* Scores are kept in tenths (8.0 is 80), which preserves every comparison *)
(* the code makes with the thresholds 5.0 and 7.0.                         *)
(***************************************************************************)
EXTENDS Integers, Sequences, FiniteSets, TLC

VARIABLES
    interventions_table,    \* Airtable 'interventions': sequence of [id, fields]
    scores_table,           \* Airtable 'exposure_source_scores': sequence of [id, fields]
    assignments_table,      \* Airtable 'intervention_assignments': sequence of fields
    interventions,          \* self.interventions
    pc,                     \* position of the process: start, ready, loop, write, exited
    existing_assignments,   \* _get_unprocessed_scores: the assignments read at line 137
    unprocessed_scores,     \* process_all_patients: the list returned at line 323
    score_pos,              \* position of the for loop of line 332 (1-based)
    matched_interventions,  \* process_all_patients: the list returned at line 339
    idx,                    \* _create_intervention_assignments: enumerate index of line 289
    assigned_date,          \* _create_intervention_assignments: line 287
    created_count,          \* _create_intervention_assignments: line 286
    total_assignments_created, \* process_all_patients: line 330
    summary,                \* the PROCESSING COMPLETE block of lines 353-357, <<>> until logged
    exit_status,            \* -1 while the process runs, then 0 or 1
    now,                    \* the clock read by datetime.now()
    write_failures,         \* failed assignments_table.create calls of this process run
    runs                    \* how many times the script has been started

vars == <<interventions_table, scores_table, assignments_table, interventions, pc,
          existing_assignments, unprocessed_scores, score_pos, matched_interventions,
          idx, assigned_date, created_count, total_assignments_created, summary,
          exit_status, now, write_failures, runs>>

----------------------------------------------------------------------------
(* Program constants (tenths for the two score thresholds).                *)

HIGH_SCORE_THRESHOLD == 70
MODERATE_SCORE_THRESHOLD == 50
MAX_INTERVENTIONS_PER_PATIENT == 10

(* Bounds of the model.                                                    *)

MaxRuns == 2
MaxWriteFailures == 2
MaxCatalogLen == 3
MaxRankedLen == 12
MaxTextLen == 2
MaxScoreRecords == 2

----------------------------------------------------------------------------
(* Python values and built-ins.                                            *)

None == "None"
NoneText == <<"None">>      \* None where the code expects a str: equal to no str

Truthy(x) == x # None /\ x # ""

UpperChars == <<"A", "B", "C", "D", "E", "F", "G", "H", "I", "J", "K", "L", "M",
                "N", "O", "P", "Q", "R", "S", "T", "U", "V", "W", "X", "Y", "Z">>
LowerChars == <<"a", "b", "c", "d", "e", "f", "g", "h", "i", "j", "k", "l", "m",
                "n", "o", "p", "q", "r", "s", "t", "u", "v", "w", "x", "y", "z">>

IsUpper(c) == \E k \in 1..26 : UpperChars[k] = c
IsLower(c) == \E k \in 1..26 : LowerChars[k] = c
IsAlpha(c) == IsUpper(c) \/ IsLower(c)
IsSpace(c) == c \in {" ", "\t", "\n", "\r"}

LowerChar(c) == IF IsUpper(c) THEN LowerChars[CHOOSE k \in 1..26 : UpperChars[k] = c] ELSE c
UpperChar(c) == IF IsLower(c) THEN UpperChars[CHOOSE k \in 1..26 : LowerChars[k] = c] ELSE c

\* str.lower()
Lower(s) == [k \in 1..Len(s) |-> LowerChar(s[k])]

\* str.replace(old, new) for one-character old and new
Replace(s, old, new) == [k \in 1..Len(s) |-> IF s[k] = old THEN new ELSE s[k]]

\* str.title(): a letter is upper-cased after a non-letter, lower-cased after a letter
Title(s) ==
    [k \in 1..Len(s) |->
        IF k = 1 \/ ~IsAlpha(s[k - 1]) THEN UpperChar(s[k]) ELSE LowerChar(s[k])]

\* str.split(): the maximal runs of non-whitespace characters, left to right
RECURSIVE SplitFrom(_, _, _)
SplitFrom(s, k, word) ==
    IF k > Len(s)
    THEN IF word = <<>> THEN <<>> ELSE <<word>>
    ELSE IF IsSpace(s[k])
         THEN (IF word = <<>> THEN <<>> ELSE <<word>>) \o SplitFrom(s, k + 1, <<>>)
         ELSE SplitFrom(s, k + 1, Append(word, s[k]))

Split(s) == SplitFrom(s, 1, <<>>)

\* `sub in s` for two str
Contains(sub, s) ==
    \E off \in 0..(Len(s) - Len(sub)) : \A k \in 1..Len(sub) : s[off + k] = sub[k]

\* dict.get(key, default)
Get(d, key, default) == IF key \in DOMAIN d THEN d[key] ELSE default

S_low == <<"l", "o", "w">>
S_moderate == <<"m", "o", "d", "e", "r", "a", "t", "e">>
S_high == <<"h", "i", "g", "h">>

----------------------------------------------------------------------------
(* _match_interventions_for_patient                                        *)

\* The keys of domain_map in insertion order, the order of the loop of line 219.
DomainKeys ==
    <<"arsenic", "mercury", "lead", "cadmium", "pfas", "phthalates", "pesticides",
      "vocs", "parabens", "mycotoxins_food", "mycotoxins_water_damage">>

domain_map ==
  [arsenic |-> <<"A", "r", "s", "e", "n", "i", "c">>,
   mercury |-> <<"M", "e", "r", "c", "u", "r", "y">>,
   lead |-> <<"L", "e", "a", "d">>,
   cadmium |-> <<"C", "a", "d", "m", "i", "u", "m">>,
   pfas |-> <<"P", "F", "A", "S">>,
   phthalates |-> <<"P", "h", "t", "h", "a", "l", "a", "t", "e", "s">>,
   pesticides |-> <<"P", "e", "s", "t", "i", "c", "i", "d", "e", "s">>,
   vocs |-> <<"V", "O", "C", "s">>,
   parabens |-> <<"P", "a", "r", "a", "b", "e", "n", "s">>,
   mycotoxins_food |-> <<"M", "y", "c", "o", "t", "o", "x", "i", "n", "s", "-",
                         "F", "o", "o", "d">>,
   mycotoxins_water_damage |-> <<"M", "y", "c", "o", "t", "o", "x", "i", "n", "s", "-",
                                 "W", "a", "t", "e", "r", "D", "a", "m", "a", "g", "e">>]

\* Lines 226-238: the confidence looked up for the domain and the base priority.
ConfidenceOf(score_data, domain_key) ==
    Lower(Get(score_data.confidence, domain_key, S_low))

BasePriority(score, conf) ==
    IF score >= HIGH_SCORE_THRESHOLD
    THEN IF conf = S_high THEN 1
         ELSE IF conf = S_moderate THEN 2
         ELSE 3
    ELSE 3

\* Line 242: the catalog entry belongs to the domain of this iteration.
DomainMatches(intervention, domain_name) ==
    intervention.domain \in {domain_name, Replace(domain_name, "-", " ")}

\* Lines 250-258 with the category tested as one keyword instead of being split.
RelevanceScoreUnsplit(source_category, primary_source) ==
    IF source_category # <<>> /\ Contains(source_category, primary_source)
    THEN 100
    ELSE IF source_category = <<>> THEN 50
    ELSE 0

\* Lines 250-258: relevance of an entry for the patient's primary source.
RelevanceScore(source_category, primary_source) ==
    IF source_category # <<>>
       /\ \E k \in 1..Len(Split(source_category)) :
              Contains(Split(source_category)[k], primary_source)
    THEN 100
    ELSE IF source_category = <<>> THEN 50
    ELSE 0

\* Line 266 with the rank taken as it is, not less one.
FinalPriorityRankNotShifted(base_priority, intervention_priority, relevance_score) ==
    base_priority + intervention_priority - (relevance_score \div 50)

\* Line 266: relevance_score / 50 is exact, the relevance being 50 or 100.
FinalPriority(base_priority, intervention_priority, relevance_score) ==
    base_priority + (intervention_priority - 1) - (relevance_score \div 50)

\* Lines 269-273: the parts of the reason string, in the order they are appended.
Reason(domain_name, score, conf, source_category) ==
    [domain |-> Replace(domain_name, "-", " "),
     score  |-> score,
     confidence |-> IF conf # S_low THEN <<conf>> ELSE <<>>,
     source |-> IF source_category # <<>>
                THEN <<Title(Replace(source_category, "_", " "))>>
                ELSE <<>>]

\* Lines 241-275 for one domain: the tuples appended to matches, in catalog order.
RECURSIVE MatchesFrom(_, _, _, _)
MatchesFrom(score_data, domain_key, catalog, e) ==
    IF e > Len(catalog) THEN <<>>
    ELSE LET intervention == catalog[e]
             domain_name == domain_map[domain_key]
             score == Get(score_data.scores, domain_key, 0)
             primary_source == Lower(Get(score_data.primary_sources, domain_key, <<>>))
             conf == ConfidenceOf(score_data, domain_key)
             source_category == Lower(intervention.source_category)
             relevance_score == RelevanceScore(source_category, primary_source)
             final_priority == FinalPriority(BasePriority(score, conf),
                                             intervention.priority_rank,
                                             relevance_score)
             rest == MatchesFrom(score_data, domain_key, catalog, e + 1)
         IN IF ~DomainMatches(intervention, domain_name) \/ relevance_score = 0
            THEN rest
            ELSE <<<<intervention, final_priority,
                     Reason(domain_name, score, conf, source_category)>>>> \o rest

\* Lines 219-275 for one domain, with the threshold gate of lines 220-224.
DomainMatchList(score_data, domain_key, catalog) ==
    IF Get(score_data.scores, domain_key, 0) < MODERATE_SCORE_THRESHOLD
    THEN <<>>
    ELSE MatchesFrom(score_data, domain_key, catalog, 1)

\* Lines 198-275: matches as it stands before the sort.
RECURSIVE MatchesFromDomain(_, _, _)
MatchesFromDomain(score_data, catalog, d) ==
    IF d > Len(DomainKeys) THEN <<>>
    ELSE DomainMatchList(score_data, DomainKeys[d], catalog)
         \o MatchesFromDomain(score_data, catalog, d + 1)

Matches(score_data, catalog) == MatchesFromDomain(score_data, catalog, 1)

\* Line 278 with an unstable sort: an element is placed before its equals.
RECURSIVE InsertBeforeEquals(_, _)
InsertBeforeEquals(sorted, m) ==
    IF sorted = <<>> THEN <<m>>
    ELSE IF m[2] <= Head(sorted)[2]
         THEN <<m>> \o sorted
         ELSE <<Head(sorted)>> \o InsertBeforeEquals(Tail(sorted), m)

\* Line 278: list.sort(key=...) is stable; an element is placed after every
\* element already placed whose key is not greater.
RECURSIVE InsertByPriority(_, _)
InsertByPriority(sorted, m) ==
    IF sorted = <<>> THEN <<m>>
    ELSE IF m[2] < Head(sorted)[2]
         THEN <<m>> \o sorted
         ELSE <<Head(sorted)>> \o InsertByPriority(Tail(sorted), m)

\* The list is sorted element by element; the list built so far is a value of
\* its own at each step (the quantified next_sorted), as it is in the code.
RECURSIVE SortFrom(_, _, _)
SortFrom(matches, k, sorted) ==
    IF k > Len(matches) THEN sorted
    ELSE CHOOSE result \in {SortFrom(matches, k + 1, next_sorted) :
                               next_sorted \in {InsertByPriority(sorted, matches[k])}} : TRUE

SortByPriority(matches) == SortFrom(matches, 1, <<>>)

\* Line 279 with the slice one element too long.
TruncateOneMore(matches) ==
    SubSeq(matches, 1, IF Len(matches) < MAX_INTERVENTIONS_PER_PATIENT + 1
                       THEN Len(matches) ELSE MAX_INTERVENTIONS_PER_PATIENT + 1)

\* Line 279: matches[:MAX_INTERVENTIONS_PER_PATIENT]
Truncate(matches) ==
    SubSeq(matches, 1, IF Len(matches) < MAX_INTERVENTIONS_PER_PATIENT
                       THEN Len(matches) ELSE MAX_INTERVENTIONS_PER_PATIENT)

\* Lines 198-279: matches is built, sorted, cut.
MatchInterventionsForPatient(score_data, catalog) ==
    CHOOSE result \in {Truncate(sorted) :
                          sorted \in {SortByPriority(matches) :
                                         matches \in {Matches(score_data, catalog)}}} : TRUE

----------------------------------------------------------------------------
(* _load_interventions (lines 105-125)                                     *)

LoadInterventions(records) ==
    [k \in 1..Len(records) |->
        LET fields == records[k].fields
        IN [record_id |-> records[k].id,
            intervention_id |-> Get(fields, "intervention_id", None),
            domain |-> Get(fields, "domain", NoneText),
            source_category |-> Get(fields, "source_category", <<>>),
            intervention_name |-> Get(fields, "intervention_name", None),
            priority_rank |-> Get(fields, "priority_rank", 5),
            difficulty_level |-> Get(fields, "difficulty_level", "Moderate"),
            expected_reduction_percent |-> Get(fields, "expected_reduction_percent", 0),
            estimated_cost |-> Get(fields, "estimated_cost", "$51-200")]]

----------------------------------------------------------------------------
(* _get_unprocessed_scores (lines 127-190)                                 *)

\* Lines 153-163
ScoreField ==
  [arsenic |-> "arsenic_source_score",
   mercury |-> "mercury_source_score",
   lead |-> "lead_source_score",
   cadmium |-> "cadmium_source_score",
   pfas |-> "pfas_source_score",
   phthalates |-> "phthalates_source_score",
   pesticides |-> "pesticides_source_score",
   vocs |-> "vocs_source_score",
   parabens |-> "parabens_source_score",
   mycotoxins_food |-> "mycotoxins_food_score",
   mycotoxins_water_damage |-> "mycotoxins_water_damage_score"]

\* Lines 166-176
SourceField ==
  [arsenic |-> "arsenic_primary_source",
   mercury |-> "mercury_primary_source",
   lead |-> "lead_primary_source",
   cadmium |-> "cadmium_primary_source",
   pfas |-> "pfas_primary_source",
   phthalates |-> "phthalates_primary_source",
   pesticides |-> "pesticides_primary_source",
   vocs |-> "vocs_primary_source",
   parabens |-> "parabens_primary_source",
   mycotoxins_food |-> "mycotoxins_food_primary_source",
   mycotoxins_water_damage |-> "mycotoxins_water_damage_primary_source"]

\* Lines 179-186: the confidence dict is built for these eight domains only.
ConfidenceField ==
  [arsenic |-> "arsenic_confidence",
   mercury |-> "mercury_confidence",
   lead |-> "lead_confidence",
   cadmium |-> "cadmium_confidence",
   pfas |-> "pfas_confidence",
   phthalates |-> "phthalates_confidence",
   pesticides |-> "pesticides_confidence",
   vocs |-> "vocs_confidence"]

\* Lines 147-188: the dict appended to unprocessed for one score record.
ScoreData(score_record) ==
    LET fields == score_record.fields
    IN [record_id |-> score_record.id,
        patient_id |-> Get(fields, "patient_id", None),
        report_id |-> Get(fields, "report_id", None),
        survey_id |-> Get(fields, "survey_id", None),
        scores |-> [k \in DOMAIN ScoreField |-> Get(fields, ScoreField[k], 0)],
        primary_sources |-> [k \in DOMAIN SourceField |-> Get(fields, SourceField[k], <<>>)],
        confidence |-> [k \in DOMAIN ConfidenceField |-> Get(fields, ConfidenceField[k], S_low)]]

\* Line 138
ProcessedReportIds(existing) ==
    {existing[k].report_id : k \in {j \in 1..Len(existing) : "report_id" \in DOMAIN existing[j]}}

\* Line 146 without the test against the processed report ids.
IsUnprocessedIgnoringAssignments(score_record, processed_report_ids) ==
    Truthy(Get(score_record.fields, "report_id", None))

\* Line 146: has report_id AND not already processed
IsUnprocessed(score_record, processed_report_ids) ==
    LET report_id == Get(score_record.fields, "report_id", None)
    IN Truthy(report_id) /\ report_id \notin processed_report_ids

\* Lines 140-190
RECURSIVE UnprocessedFrom(_, _, _)
UnprocessedFrom(all_scores, processed_report_ids, k) ==
    IF k > Len(all_scores) THEN <<>>
    ELSE (IF IsUnprocessed(all_scores[k], processed_report_ids)
          THEN <<ScoreData(all_scores[k])>> ELSE <<>>)
         \o UnprocessedFrom(all_scores, processed_report_ids, k + 1)

GetUnprocessedScoresResult(all_scores, existing) ==
    UnprocessedFrom(all_scores, ProcessedReportIds(existing), 1)

----------------------------------------------------------------------------
(* _create_intervention_assignments (lines 281-316)                        *)

\* Lines 291-296 with the tier boundaries one position early.
PriorityTierOneEarly(position) ==
    IF position < 3 THEN 1
    ELSE IF position < 6 THEN 2
    ELSE 3

\* Lines 291-296
PriorityTier(position) ==
    IF position <= 3 THEN 1
    ELSE IF position <= 6 THEN 2
    ELSE 3

\* Lines 298-307
AssignmentData(patient_id, report_id, match, position, date) ==
    [patient_id |-> patient_id,
     report_id |-> report_id,
     intervention_id |-> match[1].record_id,
     assigned_date |-> date,
     priority |-> PriorityTier(position),
     status |-> "Not Started",
     assigned_by |-> "Automated",
     practitioner_notes |-> match[3]]

----------------------------------------------------------------------------
(* The process: main (lines 360-367), InterventionMatcher.__init__ (lines  *)
(* 94-103) and process_all_patients (lines 318-357).  The process is cut   *)
(* at its calls of the record store, whose outcome the store decides.      *)

\* main, line 363: construction.  The three ways it raises are a missing
\* AIRTABLE_API_KEY (line 96), the name Api of line 98, which the module does
\* not import and which resolves only if the embedding program binds it, and a
\* failed read of the catalog (line 108).  Each ends in sys.exit(1), line 367.
Startup ==
    /\ pc = "start"
    /\ \E api_key_set \in BOOLEAN, api_bound \in BOOLEAN, load_ok \in BOOLEAN :
          IF api_key_set /\ api_bound /\ load_ok
          THEN /\ interventions' = LoadInterventions(interventions_table)
               /\ pc' = "ready"
               /\ UNCHANGED exit_status
          ELSE /\ pc' = "exited"
               /\ exit_status' = 1
               /\ UNCHANGED interventions
    /\ UNCHANGED <<interventions_table, scores_table, assignments_table,
                   existing_assignments, unprocessed_scores, score_pos,
                   matched_interventions, idx, assigned_date, created_count,
                   total_assignments_created, summary, now, write_failures, runs>>

\* process_all_patients, lines 320-330: the two reads of _get_unprocessed_scores,
\* the early return of lines 326-328, and the start of the loop.  A read that
\* raises is caught at line 365 only.
GetUnprocessedScores ==
    /\ pc = "ready"
    /\ \E read_ok \in BOOLEAN :
          IF ~read_ok
          THEN /\ pc' = "exited"
               /\ exit_status' = 1
               /\ UNCHANGED <<existing_assignments, unprocessed_scores, score_pos,
                              total_assignments_created>>
          ELSE LET unprocessed == GetUnprocessedScoresResult(scores_table, assignments_table)
               IN /\ existing_assignments' = assignments_table
                  /\ unprocessed_scores' = unprocessed
                  /\ IF unprocessed = <<>>
                     THEN /\ pc' = "exited"
                          /\ exit_status' = 0
                          /\ UNCHANGED <<score_pos, total_assignments_created>>
                     ELSE /\ pc' = "loop"
                          /\ score_pos' = 1
                          /\ total_assignments_created' = 0
                          /\ UNCHANGED exit_status
    /\ UNCHANGED <<interventions_table, scores_table, assignments_table, interventions,
                   matched_interventions, idx, assigned_date, created_count, summary,
                   now, write_failures, runs>>

\* Lines 341-343 with a return in the place of the continue.
NoMatchReturns ==
    /\ pc' = "exited"
    /\ exit_status' = 0
    /\ UNCHANGED <<score_pos, idx, assigned_date, created_count, now>>

\* Lines 341-343: no matching intervention, the loop continues with the next record.
NoMatch ==
    /\ score_pos' = score_pos + 1
    /\ UNCHANGED <<pc, exit_status, idx, assigned_date, created_count, now>>

\* Lines 345-348 and 284-287: _create_intervention_assignments is entered.
EnterCreate ==
    /\ pc' = "write"
    /\ idx' = 1
    /\ created_count' = 0
    /\ assigned_date' = now
    /\ now' = now + 1
    /\ UNCHANGED <<score_pos, exit_status>>

\* Lines 332-348: one score record is matched.
MatchPatient ==
    /\ pc = "loop"
    /\ score_pos <= Len(unprocessed_scores)
    /\ \E matched \in {MatchInterventionsForPatient(unprocessed_scores[score_pos],
                                                     interventions)} :
          /\ matched_interventions' = matched
          /\ IF matched = <<>> THEN NoMatch ELSE EnterCreate
    /\ UNCHANGED <<interventions_table, scores_table, assignments_table, interventions,
                   existing_assignments, unprocessed_scores, total_assignments_created,
                   summary, write_failures, runs>>

\* Lines 310-312: the create call returns.
CreateSucceeded ==
    /\ assignments_table' =
          Append(assignments_table,
                 AssignmentData(unprocessed_scores[score_pos].patient_id,
                                unprocessed_scores[score_pos].report_id,
                                matched_interventions[idx], idx, assigned_date))
    /\ created_count' = created_count + 1
    /\ idx' = idx + 1
    /\ UNCHANGED <<write_failures, pc, exit_status>>

\* Lines 313-314 without the except clause: the exception reaches line 365.
CreateFailedRaises ==
    /\ write_failures < MaxWriteFailures
    /\ write_failures' = write_failures + 1
    /\ pc' = "exited"
    /\ exit_status' = 1
    /\ UNCHANGED <<assignments_table, created_count, idx>>

\* Lines 313-314: the create call raises, the failure is logged and the loop goes on.
CreateFailed ==
    /\ write_failures < MaxWriteFailures
    /\ write_failures' = write_failures + 1
    /\ idx' = idx + 1
    /\ UNCHANGED <<assignments_table, created_count, pc, exit_status>>

\* Lines 289-314: one iteration of the loop, the create call returning or raising.
CreateAssignment ==
    /\ pc = "write"
    /\ idx <= Len(matched_interventions)
    /\ (CreateSucceeded \/ CreateFailed)
    /\ UNCHANGED <<interventions_table, scores_table, interventions,
                   existing_assignments, unprocessed_scores, score_pos,
                   matched_interventions, assigned_date, total_assignments_created,
                   summary, now, runs>>

\* Lines 316 and 348-351: the count is returned and added to the total.
FinishPatient ==
    /\ pc = "write"
    /\ idx > Len(matched_interventions)
    /\ total_assignments_created' = total_assignments_created + created_count
    /\ score_pos' = score_pos + 1
    /\ pc' = "loop"
    /\ UNCHANGED <<interventions_table, scores_table, assignments_table, interventions,
                   existing_assignments, unprocessed_scores, matched_interventions, idx,
                   assigned_date, created_count, summary, exit_status, now,
                   write_failures, runs>>

\* Lines 353-357, then the normal end of main.
Summary ==
    /\ pc = "loop"
    /\ score_pos > Len(unprocessed_scores)
    /\ summary' = <<[patients_processed |-> Len(unprocessed_scores),
                     total_assignments_created |-> total_assignments_created]>>
    /\ pc' = "exited"
    /\ exit_status' = 0
    /\ UNCHANGED <<interventions_table, scores_table, assignments_table, interventions,
                   existing_assignments, unprocessed_scores, score_pos,
                   matched_interventions, idx, assigned_date, created_count,
                   total_assignments_created, now, write_failures, runs>>

\* Line 370: the script is started again after the previous process has ended
\* (serialized runs); nothing of the previous process survives but the tables.
Rerun ==
    /\ pc = "exited"
    /\ runs < MaxRuns
    /\ runs' = runs + 1
    /\ pc' = "start"
    /\ exit_status' = -1
    /\ interventions' = <<>>
    /\ existing_assignments' = <<>>
    /\ unprocessed_scores' = <<>>
    /\ score_pos' = 0
    /\ matched_interventions' = <<>>
    /\ idx' = 0
    /\ assigned_date' = 0
    /\ created_count' = 0
    /\ total_assignments_created' = 0
    /\ summary' = <<>>
    /\ write_failures' = 0
    /\ UNCHANGED <<interventions_table, scores_table, assignments_table, now>>

----------------------------------------------------------------------------
(* The records of the store the process may find.  An optional field is    *)
(* given as <<>> (the field is absent from the record) or <<v>>.           *)

EmptyFields == [x \in {} |-> x]

Field(name, opt) == IF opt = <<>> THEN EmptyFields ELSE name :> opt[1]

Texts(chars, n) == UNION {[1..m -> chars] : m \in 0..n}

S_a == <<"a">>
S_rice == <<"r", "i", "c", "e">>
S_tuna == <<"t", "u", "n", "a">>
S_eat_rice == <<"I", " ", "e", "a", "t", " ", "r", "i", "c", "e", " ", "d", "a", "i", "l", "y">>

\* The confidence field of a score record, for each of the eleven domains.
RecordConfidenceField ==
  [arsenic |-> "arsenic_confidence",
   mercury |-> "mercury_confidence",
   lead |-> "lead_confidence",
   cadmium |-> "cadmium_confidence",
   pfas |-> "pfas_confidence",
   phthalates |-> "phthalates_confidence",
   pesticides |-> "pesticides_confidence",
   vocs |-> "vocs_confidence",
   parabens |-> "parabens_confidence",
   mycotoxins_food |-> "mycotoxins_food_confidence",
   mycotoxins_water_damage |-> "mycotoxins_water_damage_confidence"]

DomainFields(domain_key, score, source, confidence) ==
    Field(ScoreField[domain_key], score)
    @@ Field(SourceField[domain_key], source)
    @@ Field(RecordConfidenceField[domain_key], confidence)

ScoreRecord(id, patient_id, report_id, domain_fields) ==
    [id |-> id,
     fields |-> ("patient_id" :> patient_id) @@ Field("report_id", report_id)
                @@ ("survey_id" :> "S1") @@ domain_fields]

InterventionFields(domain, source_category, priority_rank) ==
    ("intervention_id" :> "INT") @@ ("intervention_name" :> "intervention")
    @@ Field("domain", domain) @@ Field("source_category", source_category)
    @@ Field("priority_rank", priority_rank)

Catalog(fields_seq) ==
    [k \in 1..Len(fields_seq) |-> [id |-> ToString(k), fields |-> fields_seq[k]]]

Generic(domain_key, priority_rank) ==
    InterventionFields(<<domain_map[domain_key]>>, <<>>, <<priority_rank>>)

----------------------------------------------------------------------------
(* Inputs of the matcher: one score record and one catalog.                *)

NextDomainKey(domain_key) ==
    LET d == CHOOSE j \in 1..Len(DomainKeys) : DomainKeys[j] = domain_key
    IN DomainKeys[(d % Len(DomainKeys)) + 1]

\* The spellings a catalog entry may give its domain, the entry meant for domain_key.
DomainSpellings(domain_key) ==
    {<<>>, <<domain_map[domain_key]>>, <<Replace(domain_map[domain_key], "-", " ")>>,
     <<Replace(domain_map[domain_key], "-", "_")>>, <<Lower(domain_map[domain_key])>>,
     <<domain_map[NextDomainKey(domain_key)]>>}

\* A record with three domains above the threshold, of base priority 1, 2 and 3.
RankingRecord ==
    ScoreRecord("recS1", "P1", <<"R1">>,
                DomainFields("arsenic", <<80>>, <<S_a>>, <<S_high>>)
                @@ DomainFields("mercury", <<75>>, <<>>, <<Title(S_moderate)>>)
                @@ DomainFields("lead", <<60>>, <<>>, <<S_high>>))

RankingEntries ==
    {Generic(key, priority_rank) : key \in {"arsenic", "mercury", "lead"},
                                   priority_rank \in {1, 2}}
    \cup {InterventionFields(<<domain_map["arsenic"]>>, <<S_a>>, <<2>>)}

\* Long catalogs take the domain and the rank of their k-th entry from k.
PatternEntry(k, domain_step, rank_step, rank_shift) ==
    Generic(<<"arsenic", "mercury", "lead">>[((k * domain_step) % 3) + 1],
            ((k * rank_step + rank_shift) % 3) + 1)

\* One domain of any kind against one catalog entry of any spelling.
DomainInput ==
    \E d \in 1..Len(DomainKeys) :
    \E score \in {<<>>, <<49>>, <<50>>, <<69>>, <<70>>},
       confidence \in {<<>>, <<S_low>>, <<S_moderate>>, <<S_high>>},
       source \in {<<>>, <<S_a>>},
       domain \in DomainSpellings(DomainKeys[d]),
       source_category \in {<<>>, <<S_a>>},
       priority_rank \in {<<>>, <<1>>, <<2>>, <<3>>} :
          /\ scores_table = <<ScoreRecord("recS1", "P1", <<"R1">>,
                                DomainFields(DomainKeys[d], score, source, confidence))>>
          /\ interventions_table =
                Catalog(<<InterventionFields(domain, source_category, priority_rank)>>)

\* Every short source_category against every short primary source.
TextInput ==
    \E key \in {"arsenic", "mycotoxins_food"},
       score \in {49, 80},
       priority_rank \in {1, 2},
       source \in Texts({"a", "A", "b", " "}, MaxTextLen) \cup {S_eat_rice},
       source_category \in Texts({"a", "B", " "}, MaxTextLen) \cup {S_rice} :
          /\ scores_table = <<ScoreRecord("recS1", "P1", <<"R1">>,
                                DomainFields(key, <<score>>, <<source>>, <<S_high>>))>>
          /\ interventions_table =
                Catalog(<<InterventionFields(<<domain_map[key]>>, <<source_category>>,
                                             <<priority_rank>>)>>)

\* Every short catalog over the ranking entries.
ShortCatalogInput ==
    \E n \in 0..MaxCatalogLen :
    \E fields_seq \in [1..n -> RankingEntries] :
          /\ scores_table = <<RankingRecord>>
          /\ interventions_table = Catalog(fields_seq)

\* Catalogs around and beyond the number of interventions the matcher returns.
LongCatalogInput ==
    \E n \in (MAX_INTERVENTIONS_PER_PATIENT - 1)..MaxRankedLen,
       domain_step \in 0..2, rank_step \in 0..2, rank_shift \in 0..2 :
          /\ scores_table = <<RankingRecord>>
          /\ interventions_table =
                Catalog([k \in 1..n |-> PatternEntry(k, domain_step, rank_step, rank_shift)])

----------------------------------------------------------------------------
(* Tables of the store for whole runs of the process.                      *)

SmallCatalog ==
    Catalog(<<InterventionFields(<<domain_map["arsenic"]>>, <<S_rice>>, <<2>>),
              Generic("lead", 1),
              InterventionFields(<<domain_map["mercury"]>>, <<S_tuna>>, <<>>)>>)

\* More entries of one domain than the matcher may return.
BigCatalog ==
    Catalog([k \in 1..(MAX_INTERVENTIONS_PER_PATIENT + 2) |-> PatternEntry(k, 0, 1, 0)])

ProcCatalogs == {SmallCatalog, BigCatalog}

ProcRecords ==
    {ScoreRecord("recS1", "P1", <<"R1">>,
                 DomainFields("arsenic", <<80>>, <<S_eat_rice>>, <<S_high>>)
                 @@ DomainFields("lead", <<60>>, <<>>, <<>>)),
     \* a second score record of the same report
     ScoreRecord("recS2", "P1", <<"R1">>, DomainFields("lead", <<60>>, <<>>, <<>>)),
     \* no domain reaches the threshold
     ScoreRecord("recS3", "P2", <<"R2">>, DomainFields("arsenic", <<40>>, <<>>, <<>>)),
     \* no report_id
     ScoreRecord("recS4", "P3", <<>>, DomainFields("arsenic", <<80>>, <<>>, <<>>)),
     ScoreRecord("recS5", "P4", <<"R3">>,
                 DomainFields("mercury", <<55>>, <<S_tuna>>, <<S_moderate>>))}

ProcScoreTables ==
    {t \in UNION {[1..n -> ProcRecords] : n \in 0..MaxScoreRecords} :
        \A j, k \in 1..Len(t) : j # k => t[j].id # t[k].id}

\* An assignment a practitioner entered by hand, with or without a report.
ManualAssignment(report_id) ==
    ("patient_id" :> "P4") @@ Field("report_id", report_id)
    @@ ("intervention_id" :> "1") @@ ("assigned_date" :> 0) @@ ("priority" :> 1)
    @@ ("status" :> "In Progress") @@ ("assigned_by" :> "Practitioner")
    @@ ("practitioner_notes" :> Reason(<<>>, 0, S_low, <<>>))

ProcAssignments == {<<>>, <<ManualAssignment(<<"R3">>)>>, <<ManualAssignment(<<>>)>>}

----------------------------------------------------------------------------
(* Specifications.                                                         *)

NoProcess ==
    /\ interventions = <<>>
    /\ existing_assignments = <<>>
    /\ unprocessed_scores = <<>>
    /\ score_pos = 0
    /\ matched_interventions = <<>>
    /\ idx = 0
    /\ assigned_date = 0
    /\ created_count = 0
    /\ total_assignments_created = 0
    /\ summary = <<>>
    /\ exit_status = -1
    /\ now = 1
    /\ write_failures = 0
    /\ runs = 1

\* The script is started for the first time on some content of the store.
Init ==
    /\ interventions_table \in ProcCatalogs
    /\ scores_table \in ProcScoreTables
    /\ assignments_table \in ProcAssignments
    /\ pc = "start"
    /\ NoProcess

Next ==
    \/ Startup
    \/ GetUnprocessedScores
    \/ MatchPatient
    \/ CreateAssignment
    \/ FinishPatient
    \/ Summary
    \/ Rerun

Spec == Init /\ [][Next]_vars

\* The steps of a started process; a started process keeps running.
ProcessStep ==
    Startup \/ GetUnprocessedScores \/ MatchPatient \/ CreateAssignment
    \/ FinishPatient \/ Summary

\* The fair runs are taken on the score tables of at most two records.
LiveInit == Init /\ Len(scores_table) <= 2

LiveSpec == LiveInit /\ [][Next]_vars /\ WF_vars(ProcessStep)

\* The matcher alone: a constructed matcher on one score record and one catalog.
InitMatch ==
    /\ (DomainInput \/ TextInput \/ ShortCatalogInput \/ LongCatalogInput)
    /\ assignments_table = <<>>
    /\ pc = "ready"
    /\ existing_assignments = <<>>
    /\ unprocessed_scores = <<>>
    /\ score_pos = 0
    /\ matched_interventions = <<>>
    /\ idx = 0
    /\ assigned_date = 0
    /\ created_count = 0
    /\ total_assignments_created = 0
    /\ summary = <<>>
    /\ exit_status = -1
    /\ now = 1
    /\ write_failures = 0
    /\ runs = 1
    /\ interventions = LoadInterventions(interventions_table)

NextMatch ==
    \/ GetUnprocessedScores
    \/ MatchPatient

SpecMatch == InitMatch /\ [][NextMatch]_vars

----------------------------------------------------------------------------
(* What the properties below read off a state.                             *)

\* matched_interventions holds the result of the matcher for a score record.
HasMatched == pc = "write" \/ (pc = "loop" /\ score_pos > 1)

\* The score record matched_interventions was computed for.
LastMatched ==
    IF pc = "write" THEN unprocessed_scores[score_pos] ELSE unprocessed_scores[score_pos - 1]

IsAutomated(a) == a.assigned_by = "Automated"

\* The assignments the matcher wrote, as positions of the table.
AutomatedRows == {k \in 1..Len(assignments_table) : IsAutomated(assignments_table[k])}

\* The assignments written since the read of line 137 of the running process.
NewRows == (Len(existing_assignments) + 1)..Len(assignments_table)

\* The running process has read the tables and has unprocessed records.
PastTheRead == pc \in {"loop", "write"} \/ (pc = "exited" /\ summary # <<>>)

\* The domain a returned candidate was matched for, read from its reason.
IsCandidateOf(m, domain_key) == m[3].domain = Replace(domain_map[domain_key], "-", " ")

DomainKeySet == {DomainKeys[d] : d \in 1..Len(DomainKeys)}

----------------------------------------------------------------------------
(* C1: for every score record and every catalog the matcher returns at     *)
(* most MAX_INTERVENTIONS_PER_PATIENT candidates, and one call of          *)
(* _create_intervention_assignments attempts at most that many writes:     *)
(* the loop never stands past position 10 + 1 and no single call (one      *)
(* assigned_date) leaves more than 10 assignments in the table.            *)
C1_AtMostTenPerRecord ==
    /\ Len(matched_interventions) <= MAX_INTERVENTIONS_PER_PATIENT
    /\ pc = "write" => idx - 1 <= MAX_INTERVENTIONS_PER_PATIENT
    /\ \A k \in AutomatedRows :
          Cardinality({j \in AutomatedRows :
                          assignments_table[j].assigned_date
                              = assignments_table[k].assigned_date})
              <= MAX_INTERVENTIONS_PER_PATIENT

\* Ten writes were attempted for a record that has more than ten candidates.
C1_Witness ==
    /\ pc = "write"
    /\ idx = MAX_INTERVENTIONS_PER_PATIENT + 1
    /\ Len(Matches(unprocessed_scores[score_pos], interventions))
          > MAX_INTERVENTIONS_PER_PATIENT

----------------------------------------------------------------------------
(* C3: for each of the eleven domains the base priority used for the       *)
(* domain's candidates follows from the score and the confidence the score *)
(* record stores for that domain: with score >= 7.0 it is 1 for high, 2    *)
(* for moderate and 3 otherwise; with 5.0 <= score < 7.0 it is 3.  The     *)
(* base priority a returned candidate was given is its final priority      *)
(* less the rank term and the relevance term.                              *)

\* The score record of the store that matched_interventions was computed for.
LastMatchedRecord ==
    CHOOSE r \in {scores_table[k] : k \in 1..Len(scores_table)} : r.id = LastMatched.record_id

UsedBasePriority(m) ==
    m[2] - (m[1].priority_rank - 1) + (IF m[3].source = <<>> THEN 1 ELSE 2)

StoredConfidence(fields, domain_key) ==
    Lower(Get(fields, RecordConfidenceField[domain_key], S_low))

ClaimedBasePriority(fields, domain_key) ==
    IF Get(fields, ScoreField[domain_key], 0) < HIGH_SCORE_THRESHOLD THEN 3
    ELSE IF StoredConfidence(fields, domain_key) = S_high THEN 1
    ELSE IF StoredConfidence(fields, domain_key) = S_moderate THEN 2
    ELSE 3

C3_BasePriorityFromStoredConfidence ==
    HasMatched =>
        \A k \in 1..Len(matched_interventions) : \A domain_key \in DomainKeySet :
            IsCandidateOf(matched_interventions[k], domain_key)
                => UsedBasePriority(matched_interventions[k])
                       = ClaimedBasePriority(LastMatchedRecord.fields, domain_key)

\* The same statement for the eight domains whose confidence line 179-186 copies.
C3_HoldsForCopiedDomains ==
    HasMatched =>
        \A k \in 1..Len(matched_interventions) : \A domain_key \in DOMAIN ConfidenceField :
            IsCandidateOf(matched_interventions[k], domain_key)
                => UsedBasePriority(matched_interventions[k])
                       = ClaimedBasePriority(LastMatchedRecord.fields, domain_key)

----------------------------------------------------------------------------
(* C4: before ranking and truncation a catalog entry E gives a candidate   *)
(* for domain D exactly when the patient's score for D is >= 5.0, E's      *)
(* domain is D's name in its hyphenated or its space-separated spelling,   *)
(* and E's source_category is empty or one of the whitespace-separated     *)
(* keywords of its lower-cased source_category occurs in the lower-cased   *)
(* primary-source text for D.  The returned list holds every candidate     *)
(* when there are at most ten, so it is compared pair by pair.             *)

\* c[a..b] is a whitespace-separated keyword of c.
IsKeywordAt(c, a, b) ==
    /\ a <= b
    /\ \A k \in a..b : ~IsSpace(c[k])
    /\ a = 1 \/ IsSpace(c[a - 1])
    /\ b = Len(c) \/ IsSpace(c[b + 1])

\* c[a..b] occurs in p.
OccursIn(c, a, b, p) ==
    \E off \in 0..(Len(p) - (b - a + 1)) : \A k \in 0..(b - a) : p[off + 1 + k] = c[a + k]

KeywordHit(source_category, primary_source) ==
    LET c == Lower(source_category)
        p == Lower(primary_source)
    IN \E a \in 1..Len(c), b \in 1..Len(c) : IsKeywordAt(c, a, b) /\ OccursIn(c, a, b, p)

ShouldBeCandidate(score_data, domain_key, intervention) ==
    /\ score_data.scores[domain_key] >= MODERATE_SCORE_THRESHOLD
    /\ \/ intervention.domain = domain_map[domain_key]
       \/ intervention.domain = Replace(domain_map[domain_key], "-", " ")
    /\ \/ intervention.source_category = <<>>
       \/ KeywordHit(intervention.source_category, score_data.primary_sources[domain_key])

ExpectedPairs(score_data) ==
    {<<domain_key, e>> \in DomainKeySet \X (1..Len(interventions)) :
        ShouldBeCandidate(score_data, domain_key, interventions[e])}

IsReturnedFor(domain_key, e) ==
    \E k \in 1..Len(matched_interventions) :
        /\ matched_interventions[k][1].record_id = interventions[e].record_id
        /\ IsCandidateOf(matched_interventions[k], domain_key)

----------------------------------------------------------------------------
(* C5: every candidate's final priority is base_priority + (priority_rank  *)
(* - 1) - relevance / 50, the relevance being 100 for a keyword match      *)
(* (2 is subtracted) and 50 for an entry with empty source_category (1 is  *)
(* subtracted).  Arsenic 8.0 with high confidence, primary source "I eat   *)
(* rice daily" and the entry {Arsenic, "rice", rank 2} give one candidate  *)
(* of final priority 0; the same with rank 1 gives -1.                     *)

ExampleRecord ==
    ScoreRecord("recS1", "P1", <<"R1">>,
                DomainFields("arsenic", <<80>>, <<S_eat_rice>>, <<S_high>>))

ExampleCatalog(priority_rank) ==
    Catalog(<<InterventionFields(<<domain_map["arsenic"]>>, <<S_rice>>, <<priority_rank>>)>>)

ExpectedFinalPriority(score_data, domain_key, intervention) ==
    BasePriority(score_data.scores[domain_key], ConfidenceOf(score_data, domain_key))
    + (intervention.priority_rank - 1)
    - (IF intervention.source_category = <<>> THEN 1 ELSE 2)

C5_FinalPriorityFormula ==
    HasMatched =>
        /\ \A k \in 1..Len(matched_interventions) : \A domain_key \in DomainKeySet :
              IsCandidateOf(matched_interventions[k], domain_key)
                  => matched_interventions[k][2]
                         = ExpectedFinalPriority(LastMatched, domain_key,
                                                 matched_interventions[k][1])
        /\ \A priority_rank \in {1, 2} :
              (scores_table = <<ExampleRecord>>
               /\ interventions_table = ExampleCatalog(priority_rank))
                  => /\ Len(matched_interventions) = 1
                     /\ matched_interventions[1][2] = priority_rank - 2

\* The worked example of the documentation has been matched.
C5_Witness ==
    /\ HasMatched
    /\ scores_table = <<ExampleRecord>>
    /\ interventions_table = ExampleCatalog(2)
    /\ Len(matched_interventions) = 1
    /\ matched_interventions[1][2] = 0

----------------------------------------------------------------------------
(* C6: the returned list is ordered by non-decreasing final priority,      *)
(* candidates of equal final priority keep their insertion order (domain   *)
(* order, then catalog order), and the list is the first ten elements of   *)
(* that ordering of all candidates: no omitted candidate has a lower final *)
(* priority than a returned one.                                           *)

\* Candidate j of the list precedes candidate k in the stable ordering.
Precedes(candidates, j, k) ==
    \/ candidates[j][2] < candidates[k][2]
    \/ candidates[j][2] = candidates[k][2] /\ j < k

\* The 1-based place of candidate j in the stable ordering.
PlaceOf(candidates, j) ==
    1 + Cardinality({k \in 1..Len(candidates) : Precedes(candidates, k, j)})

C6_StableOrderThenFirstTen ==
    HasMatched =>
        LET candidates == Matches(LastMatched, interventions)
        IN /\ Len(matched_interventions)
                 = (IF Len(candidates) < MAX_INTERVENTIONS_PER_PATIENT
                    THEN Len(candidates) ELSE MAX_INTERVENTIONS_PER_PATIENT)
           /\ \A j \in 1..Len(candidates) :
                 IF PlaceOf(candidates, j) <= MAX_INTERVENTIONS_PER_PATIENT
                 THEN matched_interventions[PlaceOf(candidates, j)] = candidates[j]
                 ELSE \A k \in 1..Len(matched_interventions) :
                          matched_interventions[k][2] <= candidates[j][2]
           /\ \A k \in 1..(Len(matched_interventions) - 1) :
                 matched_interventions[k][2] <= matched_interventions[k + 1][2]

\* More than ten candidates, and among the returned ones two of equal final
\* priority whose insertion order is the reverse of their catalog order.
C6_Witness ==
    /\ HasMatched
    /\ Len(Matches(LastMatched, interventions)) > MAX_INTERVENTIONS_PER_PATIENT
    /\ \E j \in 1..Len(matched_interventions), k \in 1..Len(matched_interventions) :
          /\ j < k
          /\ matched_interventions[j][2] = matched_interventions[k][2]
          /\ matched_interventions[j][3].domain # matched_interventions[k][3].domain
          /\ \E e, f \in 1..Len(interventions) :
                /\ f < e
                /\ interventions[e].record_id = matched_interventions[j][1].record_id
                /\ interventions[f].record_id = matched_interventions[k][1].record_id

----------------------------------------------------------------------------
(* C7: the tier written for an assignment depends only on the candidate's  *)
(* 1-based position in the ranked list: positions 1-3 get tier 1, 4-6 get  *)
(* tier 2, 7-10 get tier 3, whatever the final priority and whether or not *)
(* earlier writes succeeded.  Every assignment written by the running call *)
(* is that of one position already passed, with that position's tier.      *)

ClaimedTier(position) ==
    IF position \in 1..3 THEN 1 ELSE IF position \in 4..6 THEN 2 ELSE 3

\* The assignments written by the running call of _create_intervention_assignments.
RowsOfThisCall ==
    {k \in AutomatedRows \cap NewRows : assignments_table[k].assigned_date = assigned_date}

C7_TierFromPositionOnly ==
    pc = "write" =>
        \A k \in RowsOfThisCall :
            \E position \in 1..(idx - 1) :
                /\ matched_interventions[position][1].record_id
                       = assignments_table[k].intervention_id
                /\ assignments_table[k].priority = ClaimedTier(position)

\* A write failed, positions 3 and 4 have the same final priority and were
\* written with tiers 1 and 2, and a tier 3 assignment was written.
C7_Witness ==
    /\ pc = "write"
    /\ write_failures > 0
    /\ Len(matched_interventions) = MAX_INTERVENTIONS_PER_PATIENT
    /\ matched_interventions[3][2] = matched_interventions[4][2]
    /\ \E j, k, l \in RowsOfThisCall :
          /\ assignments_table[j].intervention_id = matched_interventions[3][1].record_id
          /\ assignments_table[j].priority = 1
          /\ assignments_table[k].intervention_id = matched_interventions[4][1].record_id
          /\ assignments_table[k].priority = 2
          /\ assignments_table[l].priority = 3

----------------------------------------------------------------------------
(* C2: no report_id receives assignments from more than one invocation of  *)
(* the matcher, across serialized runs and within one run, score records   *)
(* that share a report_id included.  Each invocation stamps its            *)
(* assignments with its own assigned_date.                                 *)
C2_OneInvocationPerReport ==
    \A j, k \in AutomatedRows :
        assignments_table[j].report_id = assignments_table[k].report_id
            => assignments_table[j].assigned_date = assignments_table[k].assigned_date

----------------------------------------------------------------------------
(* C8: a failed assignment write is isolated.  When the summary is logged  *)
(* every candidate of every unprocessed record has had its write attempt   *)
(* (attempts are the writes that succeeded and those that failed), the     *)
(* reported total is the number of writes that succeeded, every            *)
(* unprocessed record has been handled, and the exit status is 0; the      *)
(* count returned for one patient is the number of that call's successful  *)
(* writes; and no process with a failed write exits with status 1.         *)

RECURSIVE CandidatesOfAll(_, _)
CandidatesOfAll(score_data_seq, k) ==
    IF k > Len(score_data_seq) THEN 0
    ELSE Len(MatchInterventionsForPatient(score_data_seq[k], interventions))
         + CandidatesOfAll(score_data_seq, k + 1)

C8_WriteFailureIsolated ==
    /\ (pc = "exited" /\ summary # <<>>) =>
          /\ Cardinality(NewRows) + write_failures = CandidatesOfAll(unprocessed_scores, 1)
          /\ summary[1].total_assignments_created = Cardinality(NewRows)
          /\ summary[1].patients_processed = Len(unprocessed_scores)
          /\ score_pos = Len(unprocessed_scores) + 1
          /\ exit_status = 0
    /\ (pc = "write" /\ idx > Len(matched_interventions)) =>
          /\ created_count = Cardinality(RowsOfThisCall)
          /\ created_count + total_assignments_created = Cardinality(NewRows)
    /\ write_failures > 0 => exit_status # 1
    /\ (write_failures > 0 /\ pc = "exited") => summary # <<>>

\* A run of two records ended with its summary after a failed and a successful write.
C8_Witness ==
    /\ pc = "exited"
    /\ summary # <<>>
    /\ write_failures > 0
    /\ summary[1].total_assignments_created > 0
    /\ summary[1].patients_processed > 1
    /\ exit_status = 0

----------------------------------------------------------------------------
(* C9: every run of process_all_patients that gets past startup emits the  *)
(* final summary, whatever the number of unprocessed score records, zero   *)
(* included.  A process that ends with exit status 0 got past startup.     *)
C9_SummaryOnEveryRun ==
    (pc = "exited" /\ exit_status = 0) => summary # <<>>

(* C9 as amended: a run whose reads succeeded and found at least one       *)
(* unprocessed score record eventually logs the summary, whichever records *)
(* have no candidates and whichever writes fail; a run that finds no       *)
(* unprocessed record returns at line 328 without a summary.               *)
C9_SummaryWhenRecordsFound ==
    (pc \in {"loop", "write"}) ~> (pc = "exited" /\ summary # <<>> /\ exit_status = 0)

\* A summary was logged by a run with a failed write and a record without candidates.
C9_Witness ==
    /\ pc = "exited"
    /\ summary # <<>>
    /\ write_failures > 0
    /\ \E k \in 1..Len(unprocessed_scores) :
          MatchInterventionsForPatient(unprocessed_scores[k], interventions) = <<>>

----------------------------------------------------------------------------
(* C10: a score record is marked processed only by an assignment carrying  *)
(* its report_id.  (a) The assignments of a report never grow after the    *)
(* run that first wrote one, so writes that failed are never made up for;  *)
(* (b) a record for which zero assignments were written (no candidates, or *)
(* every write failed) remains unprocessed and is matched again on every   *)
(* subsequent run.                                                         *)

\* The running process has read the two tables.
ReadDone == pc \in {"loop", "write"} \/ (pc = "exited" /\ exit_status = 0)

IsListedUnprocessed(score_record) ==
    \E j \in 1..Len(unprocessed_scores) : unprocessed_scores[j].record_id = score_record.id

\* (a): the running process writes for no report that had an assignment when
\* the process read the table.
NoRewriteOfProcessedReports ==
    PastTheRead => \A k \in NewRows :
        assignments_table[k].report_id \notin ProcessedReportIds(existing_assignments)

\* (b) as stated, record by record: a record that has no candidates, so that
\* nothing was ever written for it, is listed as unprocessed by every read.
C10_ZeroWrittenStaysUnprocessed ==
    (ReadDone /\ \A k \in 1..Len(existing_assignments) : IsAutomated(existing_assignments[k]))
        => \A k \in 1..Len(scores_table) :
              (/\ Truthy(Get(scores_table[k].fields, "report_id", None))
               /\ MatchInterventionsForPatient(ScoreData(scores_table[k]), interventions) = <<>>)
                  => IsListedUnprocessed(scores_table[k])

(* C10 as amended: (a) as above; (b) a record with a report_id that no     *)
(* assignment carries is listed as unprocessed by every run whose reads    *)
(* succeed, and a run that reaches its summary has handled every record it *)
(* listed; a record is listed only if no assignment carries its report_id. *)
C10_ProcessedIffReportHasAssignment ==
    /\ NoRewriteOfProcessedReports
    /\ ReadDone =>
          \A k \in 1..Len(scores_table) :
              IsListedUnprocessed(scores_table[k])
                  <=> /\ Truthy(Get(scores_table[k].fields, "report_id", None))
                      /\ \A j \in 1..Len(existing_assignments) :
                            "report_id" \in DOMAIN existing_assignments[j]
                                => existing_assignments[j].report_id
                                       # scores_table[k].fields["report_id"]
    /\ (pc = "exited" /\ summary # <<>>) => score_pos = Len(unprocessed_scores) + 1
    /\ pc \in {"loop", "write"} => score_pos \in 1..(Len(unprocessed_scores) + 1)

\* In a later run a record whose writes all failed before is matched again,
\* while a report of which only a part was written is left as it is.
C10_Witness ==
    /\ runs > 1
    /\ pc = "write"
    /\ \E k \in 1..Len(scores_table) :
          LET report_id == Get(scores_table[k].fields, "report_id", None)
              written == {j \in 1..Len(existing_assignments) :
                            /\ IsAutomated(existing_assignments[j])
                            /\ existing_assignments[j].report_id = report_id}
          IN /\ written # {}
             /\ Cardinality(written)
                   < Len(MatchInterventionsForPatient(ScoreData(scores_table[k]),
                                                      interventions))
             /\ ~IsListedUnprocessed(scores_table[k])

====
